---------------------------- MODULE Spec2Model ----------------------------
(***************************************************************************)
(* Recipe Generator API: the Flask endpoints of app.py and the response    *)
(* parsing of recipe_generator.py.                                         *)
(*                                                                         *)
(* A text (an upstream reply) is a sequence of one-character strings.  A   *)
(* Python str that the program only builds and never inspects (an error or *)
(* message text) is a sequence of string pieces, its concatenation.        *)
(* A JSON value is a record [t, v]: t is "str", "num", "arr" or "obj" and  *)
(* v is the text, <<>>, the sequence of items, or the function from keys   *)
(* (texts) to values.                                                      *)
(***************************************************************************)
EXTENDS Naturals, Sequences, FiniteSets, TLC

(***************************************************************************)
(* Bounds of the model.                                                    *)
(***************************************************************************)
\* the longest ingredient list a request carries is MAX_INGREDIENTS + ExtraIngredients
ExtraIngredients == 2
\* the largest count a request carries is CountMax + ExtraCount
ExtraCount == 1
\* a long prose reply has DescriptionLimit + ExtraChars characters
ExtraChars == 3
\* the cap on the external-call counter
MaxCalls == 2

(***************************************************************************)
(* Program constants.                                                      *)
(***************************************************************************)
MAX_INGREDIENTS == 20
CountMin == 1
CountMax == 5
DescriptionLimit == 200

(***************************************************************************)
(* Characters and str methods.                                             *)
(***************************************************************************)
Q == "\""
\* the backtick character (a string literal cannot hold it)
BT == "BACKTICK"
NL == "\n"
SP == " "

Whitespace == {SP, NL}

Min(a, b) == IF a <= b THEN a ELSE b

\* s[i:] (i is 1-based)
From(s, i) == SubSeq(s, i, Len(s))

\* s[:n]
Prefix(s, n) == SubSeq(s, 1, Min(n, Len(s)))

\* s.startswith(p)
startswith(s, p) == Len(s) >= Len(p) /\ SubSeq(s, 1, Len(p)) = p

endswith(s, p) == Len(s) >= Len(p) /\ SubSeq(s, Len(s) - Len(p) + 1, Len(s)) = p

\* the first index >= i of s that holds no whitespace (Len(s) + 1 if none)
SkipWs(s, i) ==
    LET stops == {j \in i..Len(s) : s[j] \notin Whitespace}
    IN  IF stops = {} THEN Len(s) + 1
        ELSE CHOOSE j \in stops : \A k \in stops : j <= k

\* the last index of s that holds no whitespace (0 if none)
LastNonWs(s) ==
    LET stops == {j \in 1..Len(s) : s[j] \notin Whitespace}
    IN  IF stops = {} THEN 0
        ELSE CHOOSE j \in stops : \A k \in stops : j >= k

\* s.strip()
strip(s) == SubSeq(s, SkipWs(s, 1), LastNonWs(s))

\* needle in haystack, for two str
Substring(needle, hay) ==
    \E i \in 1..(Len(hay) - Len(needle) + 1) :
        SubSeq(hay, i, i + Len(needle) - 1) = needle

(***************************************************************************)
(* The two re.sub calls that remove a markdown fence.                      *)
(***************************************************************************)
Fence == <<BT, BT, BT>>
JsonTag == <<"j", "s", "o", "n">>

\* re.sub(r'^```(?:json)?\s*', '', s): anchored at the start, so at most one match
SubLeadingFence(s) ==
    IF ~startswith(s, Fence) THEN s
    ELSE LET rest == From(s, 4)
             body == IF startswith(rest, JsonTag) THEN From(rest, 5) ELSE rest
         IN  From(body, SkipWs(body, 1))

\* the whitespace run that ends just before index i starts here
WsRunStart(s, i) ==
    LET stops == {j \in 1..(i - 1) : s[j] \notin Whitespace}
    IN  IF stops = {} THEN 1
        ELSE (CHOOSE j \in stops : \A k \in stops : j >= k) + 1

\* a plausible slip: the closing pattern without its $ anchor, which removes the
\* first fence it meets and every later one
RECURSIVE SubTrailingFenceUnanchored(_)
SubTrailingFenceUnanchored(s) ==
    LET hits == {i \in 1..(Len(s) - 2) : SubSeq(s, i, i + 2) = Fence}
    IN  IF hits = {} THEN s
        ELSE LET i == CHOOSE h \in hits : \A k \in hits : h <= k
             IN  SubSeq(s, 1, WsRunStart(s, i) - 1)
                     \o SubTrailingFenceUnanchored(From(s, i + 3))

\* re.sub(r'\s*```$', '', s): $ matches at the end and before a final newline;
\* the leftmost match starts at the whitespace run before the closing fence
SubTrailingFence(s) ==
    IF endswith(s, Fence)
    THEN SubSeq(s, 1, WsRunStart(s, Len(s) - 2) - 1)
    ELSE IF endswith(s, Fence \o <<NL>>)
    THEN SubSeq(s, 1, WsRunStart(s, Len(s) - 3) - 1) \o <<NL>>
    ELSE s

\* lines 108-112 and 160-163: strip, then remove the fences of a fenced text
CleanText(response_text) ==
    LET cleaned_text == strip(response_text)
    IN  IF startswith(cleaned_text, Fence)
        THEN SubTrailingFence(SubLeadingFence(cleaned_text))
        ELSE cleaned_text

(***************************************************************************)
(* json.loads on the subset of JSON the replies use: strings without       *)
(* escapes, numbers of digits, arrays and objects.                         *)
(***************************************************************************)
Digits == {"0", "7"}

Str(text) == [t |-> "str", v |-> text]
Num == [t |-> "num", v |-> <<>>]
Arr(items) == [t |-> "arr", v |-> items]
Obj(members) == [t |-> "obj", v |-> members]

NoParse == [ok |-> FALSE, val |-> Num, next |-> 0]
Parsed(val, next) == [ok |-> TRUE, val |-> val, next |-> next]

\* a string that opens at s[i]: it closes at the next quote and holds no raw newline
ParseString(s, i) ==
    LET closes == {j \in (i + 1)..Len(s) : s[j] = Q}
    IN  IF closes = {} THEN NoParse
        ELSE LET j == CHOOSE c \in closes : \A k \in closes : c <= k
                 body == SubSeq(s, i + 1, j - 1)
             IN  IF \E k \in 1..Len(body) : body[k] = NL THEN NoParse
                 ELSE Parsed(Str(body), j + 1)

\* a number that starts at s[i]: one digit, or digits that do not start with 0
ParseNumber(s, i) ==
    LET stops == {j \in i..Len(s) : s[j] \notin Digits}
        end == IF stops = {} THEN Len(s) + 1
               ELSE CHOOSE j \in stops : \A k \in stops : j <= k
    IN  IF s[i] = "0" THEN Parsed(Num, i + 1) ELSE Parsed(Num, end)

RECURSIVE ParseValue(_, _)
RECURSIVE ParseItems(_, _, _)
RECURSIVE ParseMembers(_, _, _)

\* the items of an array after "[" or ",": s[i] starts an item
ParseItems(s, i, acc) ==
    LET item == ParseValue(s, i)
    IN  IF ~item.ok THEN NoParse
        ELSE LET j == SkipWs(s, item.next)
             IN  IF j > Len(s) THEN NoParse
                 ELSE IF s[j] = "]" THEN Parsed(Arr(Append(acc, item.val)), j + 1)
                 ELSE IF s[j] = "," THEN ParseItems(s, SkipWs(s, j + 1), Append(acc, item.val))
                 ELSE NoParse

\* the members of an object after "{" or ",": s[i] starts a key; a later
\* member replaces an earlier one of the same key
ParseMembers(s, i, acc) ==
    IF i > Len(s) \/ s[i] # Q THEN NoParse
    ELSE LET key == ParseString(s, i)
         IN  IF ~key.ok THEN NoParse
             ELSE LET c == SkipWs(s, key.next)
                  IN  IF c > Len(s) \/ s[c] # ":" THEN NoParse
                      ELSE LET val == ParseValue(s, SkipWs(s, c + 1))
                           IN  IF ~val.ok THEN NoParse
                               ELSE LET j == SkipWs(s, val.next)
                                        now == (key.val.v :> val.val) @@ acc
                                    IN  IF j > Len(s) THEN NoParse
                                        ELSE IF s[j] = "}" THEN Parsed(Obj(now), j + 1)
                                        ELSE IF s[j] = ","
                                        THEN ParseMembers(s, SkipWs(s, j + 1), now)
                                        ELSE NoParse

\* the value that starts at s[i]
ParseValue(s, i) ==
    IF i > Len(s) THEN NoParse
    ELSE IF s[i] = Q THEN ParseString(s, i)
    ELSE IF s[i] \in Digits THEN ParseNumber(s, i)
    ELSE IF s[i] = "["
    THEN LET j == SkipWs(s, i + 1)
         IN  IF j <= Len(s) /\ s[j] = "]" THEN Parsed(Arr(<<>>), j + 1)
             ELSE ParseItems(s, j, <<>>)
    ELSE IF s[i] = "{"
    THEN LET j == SkipWs(s, i + 1)
         IN  IF j <= Len(s) /\ s[j] = "}" THEN Parsed(Obj(<<>>), j + 1)
             ELSE ParseMembers(s, j, <<>>)
    ELSE NoParse

\* json.loads(s): one value, whitespace around it allowed; ~ok is JSONDecodeError
json_loads(s) ==
    LET r == ParseValue(s, SkipWs(s, 1))
    IN  IF r.ok /\ SkipWs(s, r.next) > Len(s) THEN r ELSE NoParse


(***************************************************************************)
(* The keys and the fixed texts of recipe_generator.py, as texts.           *)
(***************************************************************************)
K_recipe_name == <<"r", "e", "c", "i", "p", "e", "_", "n", "a", "m", "e">>
K_ingredients == <<"i", "n", "g", "r", "e", "d", "i", "e", "n", "t", "s">>
K_instructions == <<"i", "n", "s", "t", "r", "u", "c", "t", "i", "o", "n", "s">>
K_description == <<"d", "e", "s", "c", "r", "i", "p", "t", "i", "o", "n">>
K_error == <<"e", "r", "r", "o", "r">>
K_recipes == <<"r", "e", "c", "i", "p", "e", "s">>
GeneratedRecipe == <<"G", "e", "n", "e", "r", "a", "t", "e", "d", " ", "R", "e", "c", "i", "p", "e">>
FailedToParse ==
    <<"F", "a", "i", "l", "e", "d", " ", "t", "o", " ", "p", "a", "r", "s", "e", " ", "s", "t", "r", "u", "c", "t", "u", "r", "e", "d", " ", "r", "e", "c", "i", "p", "e">>

\* line 118
required_fields == <<K_recipe_name, K_ingredients, K_instructions>>

\* the field of required_fields as the piece of a message
FieldName(field) ==
    CASE field = K_recipe_name -> "recipe_name"
      [] field = K_ingredients -> "ingredients"
      [] field = K_instructions -> "instructions"

(***************************************************************************)
(* Python outcomes: a call returns a value or raises an exception.  An     *)
(* exception is [type, msg]; str(e) is its msg.                            *)
(***************************************************************************)
Return(value) == [kind |-> "return", value |-> value]
Raise(type, msg) == [kind |-> "raise", exc |-> [type |-> type, msg |-> msg]]
str(e) == e.msg

\* what the type of a JSON value is called in a Python message
PyType(val) ==
    CASE val.t = "str" -> "str"
      [] val.t = "num" -> "int"
      [] val.t = "arr" -> "list"
      [] val.t = "obj" -> "dict"

\* field in recipe_data (line 120): a key of a dict, an item of a list, a
\* substring of a str; an int is not iterable
Contains(field, recipe_data) ==
    CASE recipe_data.t = "obj" -> field \in DOMAIN recipe_data.v
      [] recipe_data.t = "arr" ->
            \E i \in 1..Len(recipe_data.v) :
                recipe_data.v[i].t = "str" /\ recipe_data.v[i].v = field
      [] recipe_data.t = "str" -> Substring(field, recipe_data.v)
      [] recipe_data.t = "num" -> FALSE

\* lines 118-123: the first required field that is missing raises ValueError
ValidateRequired(recipe_data) ==
    IF recipe_data.t = "num"
    THEN Raise("TypeError", <<"argument of type 'int' is not iterable">>)
    ELSE LET missing == {i \in 1..Len(required_fields) :
                            ~Contains(required_fields[i], recipe_data)}
         IN  IF missing = {} THEN Return(recipe_data)
             ELSE LET i == CHOOSE m \in missing : \A k \in missing : m <= k
                  IN  Raise("ValueError",
                            <<"Missing required field: ", FieldName(required_fields[i])>>)

\* a plausible slip: the fallback built from the cleaned text
FallbackOfCleaned(response_text) ==
    Obj((K_recipe_name :> Str(GeneratedRecipe))
        @@ (K_description :> Str(Prefix(strip(response_text), DescriptionLimit)))
        @@ (K_ingredients :> Arr(<<>>))
        @@ (K_instructions :> Arr(<<Str(strip(response_text))>>))
        @@ (K_error :> Str(FailedToParse)))

\* lines 127-133: the fallback structure
Fallback(response_text) ==
    Obj((K_recipe_name :> Str(GeneratedRecipe))
        @@ (K_description :> Str(Prefix(response_text, DescriptionLimit)))
        @@ (K_ingredients :> Arr(<<>>))
        @@ (K_instructions :> Arr(<<Str(response_text)>>))
        @@ (K_error :> Str(FailedToParse)))

\* lines 104-135
_parse_response(response_text) ==
    LET loaded == json_loads(strip(CleanText(response_text)))
    IN  IF ~loaded.ok THEN Return(Fallback(response_text))
        ELSE LET checked == ValidateRequired(loaded.val)
             IN  IF checked.kind = "raise"
                 THEN Raise("Exception", <<"Error parsing recipe: ">> \o str(checked.exc))
                 ELSE checked

\* a plausible slip: an except clause that catches ValueError only
CatchValueError(outcome, message) ==
    IF outcome.kind = "raise" /\ outcome.exc.type = "ValueError"
    THEN Return([success |-> FALSE, error |-> str(outcome.exc), message |-> <<message>>])
    ELSE outcome

\* lines 43-48 and 172-177: except Exception as e
CatchException(outcome, message) ==
    IF outcome.kind = "raise"
    THEN Return([success |-> FALSE, error |-> str(outcome.exc), message |-> <<message>>])
    ELSE outcome

\* lines 28-48; upstream is the outcome of self.model.generate_content(prompt)
RecipeGenerator_generate_recipe(upstream) ==
    CatchException(
        IF upstream.kind = "raise" THEN upstream
        ELSE LET recipe_data == _parse_response(upstream.value)
             IN  IF recipe_data.kind = "raise" THEN recipe_data
                 ELSE Return([success |-> TRUE, recipe |-> recipe_data.value]),
        "Failed to generate recipe")

\* lines 165-170: recipes_data.get("recipes", [])
RecipesOf(recipes_data) ==
    IF recipes_data.t # "obj"
    THEN Raise("AttributeError",
               <<"'", PyType(recipes_data), "' object has no attribute 'get'">>)
    ELSE IF K_recipes \in DOMAIN recipes_data.v
    THEN Return(recipes_data.v[K_recipes])
    ELSE Return(Arr(<<>>))

\* lines 137-177
RecipeGenerator_generate_multiple_recipes(upstream) ==
    CatchException(
        IF upstream.kind = "raise" THEN upstream
        ELSE LET loaded == json_loads(strip(CleanText(upstream.value)))
             IN  IF ~loaded.ok
                 THEN Raise("JSONDecodeError", <<"Expecting value">>)
                 ELSE LET recipes == RecipesOf(loaded.val)
                      IN  IF recipes.kind = "raise" THEN recipes
                          ELSE Return([success |-> TRUE, recipes |-> recipes.value]),
        "Failed to generate recipe suggestions")

(***************************************************************************)
(* The replies response.text may hold: each body bare and inside fences.   *)
(***************************************************************************)
Quote(text) == <<Q>> \o text \o <<Q>>
Member(key, value) == Quote(key) \o <<":">> \o value

RECURSIVE Joined(_)
Joined(parts) ==
    IF Len(parts) = 0 THEN <<>>
    ELSE IF Len(parts) = 1 THEN parts[1]
    ELSE parts[1] \o <<",">> \o Joined(Tail(parts))

ObjectText(members) == <<"{">> \o Joined(members) \o <<"}">>
ArrayText(items) == <<"[">> \o Joined(items) \o <<"]">>

RECURSIVE Repeat(_, _)
Repeat(c, n) == IF n = 0 THEN <<>> ELSE <<c>> \o Repeat(c, n - 1)

M_name == Member(K_recipe_name, Quote(<<"a">>))
M_ingredients == Member(K_ingredients, ArrayText(<<>>))
M_instructions == Member(K_instructions, ArrayText(<<Quote(<<"b">>)>>))
\* a description that holds a fence and a longer backtick run
M_description == Member(K_description, Quote(<<"c", SP>> \o Fence \o <<SP, BT>> \o Fence))

\* JSON objects: a complete recipe, recipes that lack fields, recipe lists
ObjectBodies ==
    { ObjectText(<<M_name, M_ingredients, M_instructions>>),
      ObjectText(<<M_name, M_description, M_ingredients, <<SP>> \o M_instructions>>),
      ObjectText(<<M_ingredients, M_instructions>>),
      ObjectText(<<M_name, M_description, M_instructions>>),
      ObjectText(<<M_name, M_ingredients>>),
      ObjectText(<<>>),
      ObjectText(<<Member(K_recipes, ArrayText(<<ObjectText(<<M_name>>)>>))>>),
      ObjectText(<<Member(K_recipes, ArrayText(<<>>)), M_description>>),
      ObjectText(<<Member(K_recipes, <<"7">>)>>) }

\* JSON that is no object
OtherJsonBodies ==
    { Quote(K_recipe_name \o <<SP>> \o K_ingredients \o <<SP>> \o K_instructions),
      Quote(K_recipe_name \o <<SP>> \o K_ingredients),
      ArrayText(<<Quote(K_recipe_name), Quote(K_ingredients), Quote(K_instructions)>>),
      ArrayText(<<Quote(K_recipe_name), Quote(K_instructions)>>),
      <<"7">> }

\* text that is not JSON: prose, a truncated object, nothing, a long text
ProseBodies ==
    { <<"a", SP, "b">>,
      <<"a", SP>> \o Fence \o <<"b">>,
      <<"{">> \o M_name \o <<",">>,
      <<>>,
      Repeat("a", DescriptionLimit) \o Repeat("b", ExtraChars) }

Bodies == ObjectBodies \cup OtherJsonBodies \cup ProseBodies

\* an opening fence line, tagged or bare, and a closing one
FenceOpenings == {Fence \o JsonTag \o <<NL>>, Fence \o <<NL>>, <<SP>> \o Fence \o JsonTag \o <<NL>>}
FenceClosings == {<<NL>> \o Fence, <<NL>> \o Fence \o <<NL>>, <<NL>> \o Fence \o <<SP>>}

Fenced(opening, body, closing) == opening \o body \o closing

\* a body as it is, inside whitespace, and inside each pair of fences
Forms(bodies) ==
    bodies
    \cup {<<NL>> \o b \o <<SP>> : b \in bodies}
    \cup {Fenced(o, b, c) : o \in FenceOpenings, b \in bodies, c \in FenceClosings}

\* an object with the opening fence alone, and with the closing fence alone
HalfFenced == {Fenced(o, b, <<>>) : o \in FenceOpenings, b \in ObjectBodies}
Unopened == {Fenced(<<>>, b, c) : b \in ObjectBodies, c \in FenceClosings}

Replies == Forms(Bodies) \cup HalfFenced \cup Unopened

(***************************************************************************)
(* Requests.  A payload is what the request carries as its body; the data  *)
(* of a JSON payload is null, a list or a dict of the four fields the two  *)
(* request models read.  A field is absent or a value [t, n, strs]: a str, *)
(* an int n, or a list of n items that are all str (strs) or not.          *)
(***************************************************************************)
Absent == [t |-> "absent", n |-> 0, strs |-> TRUE]
AStr == [t |-> "str", n |-> 0, strs |-> TRUE]
AnInt(n) == [t |-> "int", n |-> n, strs |-> TRUE]
AList(n, strs) == [t |-> "list", n |-> n, strs |-> strs]

IngredientValues ==
    {Absent, AStr}
    \cup {AList(n, TRUE) : n \in 0..(MAX_INGREDIENTS + ExtraIngredients)}
    \cup {AList(n, FALSE) : n \in 1..(MAX_INGREDIENTS + ExtraIngredients)}
CuisineValues == {Absent, AStr, AnInt(0)}
DietaryValues == {Absent, AList(1, TRUE), AStr}
CountValues == {Absent, AStr} \cup {AnInt(n) : n \in 0..(CountMax + ExtraCount)}

Dict(ingredients, cuisine_type, dietary_restrictions, count) ==
    [t |-> "dict", n |-> 0, ingredients |-> ingredients, cuisine_type |-> cuisine_type,
     dietary_restrictions |-> dietary_restrictions, count |-> count]
NullData == [t |-> "null", n |-> 0, ingredients |-> Absent, cuisine_type |-> Absent,
             dietary_restrictions |-> Absent, count |-> Absent]
ListData(n) == [t |-> "list", n |-> n, ingredients |-> Absent, cuisine_type |-> Absent,
                dietary_restrictions |-> Absent, count |-> Absent]

NoBody(json_ctype) == [kind |-> "none", json_ctype |-> json_ctype, data |-> NullData]
Malformed == [kind |-> "malformed", json_ctype |-> TRUE, data |-> NullData]
Json(data) == [kind |-> "json", json_ctype |-> TRUE, data |-> data]

OtherPayloads ==
    {NoBody(c) : c \in BOOLEAN} \cup {Malformed}
    \cup {Json(NullData), Json(ListData(0)), Json(ListData(1))}
\* the ingredient lists at the edges of the accepted lengths
EdgeLists == {AList(n, TRUE) : n \in {0, 1, MAX_INGREDIENTS, MAX_INGREDIENTS + 1}}

\* every ingredients value alone, and the edge lists with every other field
RecipePayloads ==
    OtherPayloads
    \cup {Json(Dict(i, Absent, Absent, Absent)) : i \in IngredientValues}
    \cup {Json(Dict(i, c, d, Absent)) : i \in EdgeLists, c \in CuisineValues, d \in DietaryValues}
SuggestPayloads ==
    OtherPayloads
    \cup {Json(Dict(i, Absent, Absent, Absent)) : i \in IngredientValues}
    \cup {Json(Dict(i, Absent, Absent, n)) : i \in EdgeLists, n \in CountValues}

Routes == {"/", "/health", "/generate_recipe", "/suggest_recipes"}
Request(route, method, payload) == [route |-> route, method |-> method, payload |-> payload]

Requests ==
    {Request(r, m, NoBody(FALSE)) : r \in Routes \cup {"/unknown"}, m \in {"GET", "POST"}}
    \cup {Request("/generate_recipe", "POST", p) : p \in RecipePayloads}
    \cup {Request("/suggest_recipes", "POST", p) : p \in SuggestPayloads}

(***************************************************************************)
(* app.py: request.get_json(), the pydantic models, the responses.         *)
(***************************************************************************)
None == [kind |-> "none"]

\* request.get_json() (lines 68, 125): without a body it raises werkzeug's
\* BadRequest under a JSON content type; under another content type it raises
\* UnsupportedMediaType (Flask >= 2.1) or returns None (older Flask)
get_json(payload) ==
    CASE payload.kind = "json" -> {Return(payload.data)}
      [] payload.kind = "malformed" ->
            {Raise("BadRequest", <<"400 Bad Request: Failed to decode JSON object">>)}
      [] payload.kind = "none" /\ payload.json_ctype ->
            {Raise("BadRequest", <<"400 Bad Request: Failed to decode JSON object">>)}
      [] payload.kind = "none" /\ ~payload.json_ctype ->
            {Raise("UnsupportedMediaType", <<"415 Unsupported Media Type">>),
             Return(NullData)}

\* not data (lines 70, 127): None, an empty list and an empty dict are falsy
Falsy(data) ==
    \/ data.t = "null"
    \/ data.t = "list" /\ data.n = 0
    \/ data.t = "dict" /\ data.ingredients = Absent /\ data.cuisine_type = Absent
         /\ data.dietary_restrictions = Absent /\ data.count = Absent

Error(loc, type) == <<[loc |-> loc, type |-> type]>>

\* a plausible slip: the upper bound exclusive
IngredientsErrorsExclusive(v) ==
    IF v.t = "absent" THEN Error("ingredients", "missing")
    ELSE IF v.t # "list" THEN Error("ingredients", "list_type")
    ELSE IF v.n < 1 THEN Error("ingredients", "too_short")
    ELSE IF v.n >= MAX_INGREDIENTS THEN Error("ingredients", "too_long")
    ELSE IF ~v.strs THEN Error("ingredients", "string_type")
    ELSE <<>>

\* lines 25, 30: List[str], Field(..., min_length=1, max_length=Config.MAX_INGREDIENTS)
IngredientsErrors(v) ==
    IF v.t = "absent" THEN Error("ingredients", "missing")
    ELSE IF v.t # "list" THEN Error("ingredients", "list_type")
    ELSE IF v.n < 1 THEN Error("ingredients", "too_short")
    ELSE IF v.n > MAX_INGREDIENTS THEN Error("ingredients", "too_long")
    ELSE IF ~v.strs THEN Error("ingredients", "string_type")
    ELSE <<>>

\* line 26: Optional[str] = None
CuisineErrors(v) ==
    IF v.t \in {"absent", "str"} THEN <<>> ELSE Error("cuisine_type", "string_type")

\* line 27: Optional[List[str]] = []
DietaryErrors(v) ==
    IF v.t = "absent" \/ (v.t = "list" /\ v.strs) THEN <<>>
    ELSE Error("dietary_restrictions", "list_type")

\* line 31: int = Field(default=3, ge=1, le=5)
CountErrors(v) ==
    IF v.t = "absent" THEN <<>>
    ELSE IF v.t # "int" THEN Error("count", "int_parsing")
    ELSE IF v.n < CountMin THEN Error("count", "greater_than_equal")
    ELSE IF v.n > CountMax THEN Error("count", "less_than_equal")
    ELSE <<>>

\* RecipeRequest(**data): e.errors() of the ValidationError, <<>> when it validates
RecipeRequest(data) ==
    IngredientsErrors(data.ingredients) \o CuisineErrors(data.cuisine_type)
        \o DietaryErrors(data.dietary_restrictions)

\* MultipleRecipesRequest(**data)
MultipleRecipesRequest(data) ==
    IngredientsErrors(data.ingredients) \o CountErrors(data.count)

jsonify(body, status) == [status |-> status, body |-> body]

\* lines 71-74, 128-131
NoDataProvided ==
    jsonify([success |-> FALSE, error |-> <<"No data provided">>], 400)

\* lines 80-84, 137-141
ValidationFailed(errors) ==
    jsonify([success |-> FALSE, error |-> <<"Validation error">>, details |-> errors], 400)

\* lines 103-109, 159-165: except Exception as e
UnexpectedError(e) ==
    jsonify([success |-> FALSE, error |-> <<"Internal server error">>, message |-> str(e)], 500)

\* lines 34-45
home ==
    jsonify([message |-> <<"Recipe Generator API is running">>, version |-> <<"1.0.0">>,
             endpoints |-> {"/generate_recipe", "/suggest_recipes", "/health"}], 200)

\* lines 48-51
health == jsonify([status |-> <<"healthy">>, message |-> <<"API is running">>], 200)

\* lines 168-174
not_found ==
    jsonify([success |-> FALSE, error |-> <<"Endpoint not found">>,
             message |-> <<"The requested endpoint does not exist">>], 404)

\* a plausible slip: a handler that drops the message
method_not_allowed_bare ==
    jsonify([success |-> FALSE, error |-> <<"Method not allowed">>], 405)

\* lines 176-182
method_not_allowed ==
    jsonify([success |-> FALSE, error |-> <<"Method not allowed">>,
             message |-> <<"The HTTP method is not allowed for this endpoint">>], 405)

\* lines 184-190; no request reaches it: both endpoints catch every Exception
internal_error ==
    jsonify([success |-> FALSE, error |-> <<"Internal server error">>,
             message |-> <<"An unexpected error occurred">>], 500)

\* lines 66-87 and 123-144: the endpoint up to the call of the generator, given
\* what get_json did and the errors of the request model: a response, or None
\* when the request goes on to the generator
BeforeGenerator(got, errors) ==
    IF got.kind = "raise" THEN UnexpectedError(got.exc)
    ELSE IF Falsy(got.value) THEN NoDataProvided
    ELSE IF got.value.t # "dict"
    THEN UnexpectedError([type |-> "TypeError",
                          msg |-> <<"argument after ** must be a mapping, not list">>])
    ELSE IF errors # <<>> THEN ValidationFailed(errors)
    ELSE None

\* lines 96-101 (and 103-109): the response to the result of generate_recipe;
\* result['recipe'].get raises for a recipe that is no dict
RecipeResponse(outcome) ==
    IF outcome.kind = "raise" THEN UnexpectedError(outcome.exc)
    ELSE IF ~outcome.value.success THEN jsonify(outcome.value, 500)
    ELSE IF outcome.value.recipe.t # "obj"
    THEN UnexpectedError([type |-> "AttributeError",
                          msg |-> <<"'", PyType(outcome.value.recipe),
                                    "' object has no attribute 'get'">>])
    ELSE jsonify(outcome.value, 200)

\* lines 152-157 (and 159-165): len(result.get('recipes', [])) raises for an int
SuggestResponse(outcome) ==
    IF outcome.kind = "raise" THEN UnexpectedError(outcome.exc)
    ELSE IF ~outcome.value.success THEN jsonify(outcome.value, 500)
    ELSE IF outcome.value.recipes.t = "num"
    THEN UnexpectedError([type |-> "TypeError",
                          msg |-> <<"object of type 'int' has no len()">>])
    ELSE jsonify(outcome.value, 200)

\* what self.model.generate_content(prompt) and response.text may do
UpstreamErrors == {"429 Resource has been exhausted", "504 Deadline Exceeded"}
UpstreamOutcomes ==
    {Return(text) : text \in Replies}
    \cup {Raise("GoogleAPIError", <<e>>) : e \in UpstreamErrors}

(***************************************************************************)
(* The service: one request at a time goes from received to responded.     *)
(*   pc        where the request is: idle, received, calling (validated,   *)
(*             the generator about to call the model), returned (the model *)
(*             answered or raised), responded                              *)
(*   req       the request                                                 *)
(*   calls     how often generate_content was called for req               *)
(*   upstream  the outcome of that call                                    *)
(*   result    the outcome of generate_recipe / generate_multiple_recipes  *)
(*   response  the HTTP response                                           *)
(***************************************************************************)
VARIABLES pc, req, calls, upstream, result, response

vars == <<pc, req, calls, upstream, result, response>>

Init ==
    /\ pc = "idle"
    /\ req = None
    /\ calls = 0
    /\ upstream = None
    /\ result = None
    /\ response = None

\* a request arrives
Receive ==
    /\ pc = "idle"
    /\ req' \in Requests
    /\ pc' = "received"
    /\ UNCHANGED <<calls, upstream, result, response>>

\* the response is sent; nothing of the request is kept for the next one
Sent ==
    /\ pc = "responded"
    /\ pc' = "idle"
    /\ req' = None
    /\ calls' = 0
    /\ upstream' = None
    /\ result' = None
    /\ response' = None

Respond(r) ==
    /\ pc' = "responded"
    /\ response' = r
    /\ UNCHANGED <<req, calls, upstream, result>>

Home ==
    /\ pc = "received" /\ req.route = "/" /\ req.method = "GET"
    /\ Respond(home)

Health ==
    /\ pc = "received" /\ req.route = "/health" /\ req.method = "GET"
    /\ Respond(health)

NotFound ==
    /\ pc = "received" /\ req.route \notin Routes
    /\ Respond(not_found)

MethodNotAllowed ==
    /\ pc = "received" /\ req.route \in Routes
    /\ req.method # (IF req.route \in {"/", "/health"} THEN "GET" ELSE "POST")
    /\ Respond(method_not_allowed)

\* lines 78 and 135: the request model of the endpoint, applied to a dict
RequestModel(route, data) ==
    IF route = "/generate_recipe" THEN RecipeRequest(data) ELSE MultipleRecipesRequest(data)

\* an endpoint up to the generator: it responds, or the generator starts
Enter ==
    \E got \in get_json(req.payload) :
        LET errors == IF got.kind = "return" /\ got.value.t = "dict"
                      THEN RequestModel(req.route, got.value) ELSE <<>>
            early == BeforeGenerator(got, errors)
        IN  /\ pc' = IF early = None THEN "calling" ELSE "responded"
            /\ response' = early
            /\ UNCHANGED <<req, calls, upstream, result>>

\* lines 66-87
GenerateRecipeEnter ==
    /\ pc = "received" /\ req.route = "/generate_recipe" /\ req.method = "POST"
    /\ Enter

\* lines 123-144
SuggestRecipesEnter ==
    /\ pc = "received" /\ req.route = "/suggest_recipes" /\ req.method = "POST"
    /\ Enter

\* a plausible slip: the call made again when it raised
RetryWhenRaised(outcome) == IF outcome.kind = "raise" THEN "calling" ELSE "returned"

\* lines 33-36 and 157-160: after the call the generator goes on, whatever came
AfterCall(outcome) == "returned"

\* lines 33, 157: self.model.generate_content(prompt) and response.text
ExternalCall ==
    /\ pc = "calling" /\ calls < MaxCalls
    /\ \E outcome \in UpstreamOutcomes :
        /\ upstream' = outcome
        /\ pc' = AfterCall(outcome)
    /\ calls' = calls + 1
    /\ UNCHANGED <<req, result, response>>

\* lines 36-48 and 96-109
GenerateRecipeFinish ==
    /\ pc = "returned" /\ req.route = "/generate_recipe"
    /\ result' = RecipeGenerator_generate_recipe(upstream)
    /\ response' = RecipeResponse(result')
    /\ pc' = "responded"
    /\ UNCHANGED <<req, calls, upstream>>

\* lines 160-177 and 152-165
SuggestRecipesFinish ==
    /\ pc = "returned" /\ req.route = "/suggest_recipes"
    /\ result' = RecipeGenerator_generate_multiple_recipes(upstream)
    /\ response' = SuggestResponse(result')
    /\ pc' = "responded"
    /\ UNCHANGED <<req, calls, upstream>>

Next ==
    \/ Receive
    \/ Home
    \/ Health
    \/ NotFound
    \/ MethodNotAllowed
    \/ GenerateRecipeEnter
    \/ SuggestRecipesEnter
    \/ ExternalCall
    \/ GenerateRecipeFinish
    \/ SuggestRecipesFinish
    \/ Sent

Spec == Init /\ [][Next]_vars

(***************************************************************************)
(* Properties.                                                             *)
(***************************************************************************)
OnRecipe == pc # "idle" /\ req.route = "/generate_recipe" /\ req.method = "POST"
OnSuggest == pc # "idle" /\ req.route = "/suggest_recipes" /\ req.method = "POST"
Answered == pc = "responded" /\ calls = 1 /\ upstream.kind = "return"

\* the replies that are not JSON once whitespace and fences are stripped: prose
\* in every form, and an object followed by a closing fence that nothing opens
NotJson == Forms(ProseBodies) \cup Unopened

\* C1: a reply that is not valid JSON makes generate_recipe return a Success
\* whose recipe is the fallback (recipe_name "Generated Recipe", no
\* ingredients, the raw reply as the only instruction, its first 200
\* characters as description, an error marker), answered with HTTP 200.
C1_FallbackIsSuccess ==
    (OnRecipe /\ Answered /\ upstream.value \in NotJson) =>
        LET raw == upstream.value
            head == IF Len(raw) <= DescriptionLimit THEN raw
                    ELSE SubSeq(raw, 1, DescriptionLimit)
        IN  /\ result.kind = "return"
            /\ result.value.success
            /\ response.status = 200
            /\ DOMAIN response.body = {"success", "recipe"}
            /\ response.body.success
            /\ LET recipe == response.body.recipe
               IN  /\ recipe.t = "obj"
                   /\ DOMAIN recipe.v = {K_recipe_name, K_description, K_ingredients,
                                         K_instructions, K_error}
                   /\ recipe.v[K_recipe_name] = Str(GeneratedRecipe)
                   /\ recipe.v[K_ingredients] = Arr(<<>>)
                   /\ recipe.v[K_instructions] = Arr(<<Str(raw)>>)
                   /\ recipe.v[K_description] = Str(head)

\* a prose reply longer than the description limit was answered with 200
C1_Witness ==
    /\ OnRecipe /\ Answered
    /\ upstream.value \in NotJson
    /\ Len(upstream.value) > DescriptionLimit
    /\ response.status = 200

\* the JSON value has no field of this name
Lacks(val, field) == val.t # "obj" \/ field \notin DOMAIN val.v

\* C2: a reply that parses as JSON and lacks a required field makes
\* generate_recipe return a Failure with error and message, answered with
\* HTTP 500 carrying that Failure.
C2_MissingFieldIsFailure ==
    (OnRecipe /\ Answered) =>
        LET loaded == json_loads(strip(CleanText(upstream.value)))
        IN  (loaded.ok /\ \E i \in 1..Len(required_fields) : Lacks(loaded.val, required_fields[i]))
            => /\ result.kind = "return"
               /\ ~result.value.success
               /\ {"error", "message"} \subseteq DOMAIN result.value
               /\ response.status = 500
               /\ DOMAIN response.body = {"success", "error", "message"}

\* C3: on the multi-recipe path a JSON object without the key recipes is a
\* Failure, never a Success.
C3_MissingRecipesIsFailure ==
    (OnSuggest /\ Answered) =>
        LET loaded == json_loads(strip(CleanText(upstream.value)))
        IN  (loaded.ok /\ loaded.val.t = "obj" /\ K_recipes \notin DOMAIN loaded.val.v)
            => (result.kind = "return" /\ ~result.value.success)

\* C4: on both POST endpoints a dict whose ingredients is a list of 1..MAX
\* strings, with its other fields valid, passes validation (the generator is
\* called, the answer is not 400); a list of 0 or of more than MAX strings is
\* answered 400 with success false, error "Validation error" and details.
C4_IngredientBounds ==
    ((OnRecipe \/ OnSuggest) /\ pc # "received" /\ req.payload.kind = "json"
        /\ req.payload.data.t = "dict" /\ req.payload.data.ingredients.t = "list"
        /\ req.payload.data.ingredients.strs) =>
        LET data == req.payload.data
            n == data.ingredients.n
            othersValid ==
                /\ data.cuisine_type.t \in {"absent", "str"}
                /\ data.dietary_restrictions.t \in {"absent", "list"}
                /\ \/ data.count.t = "absent"
                   \/ data.count.t = "int" /\ data.count.n >= 1 /\ data.count.n <= 5
        IN  /\ (n >= 1 /\ n <= MAX_INGREDIENTS /\ othersValid) =>
                /\ pc = "calling" => response = None
                /\ pc = "responded" => (calls = 1 /\ response.status # 400)
            /\ (n = 0 \/ n > MAX_INGREDIENTS) =>
                /\ pc = "responded"
                /\ calls = 0
                /\ response.status = 400
                /\ DOMAIN response.body = {"success", "error", "details"}
                /\ ~response.body.success
                /\ response.body.error = <<"Validation error">>
                /\ Len(response.body.details) > 0

\* a list of exactly MAX ingredients was accepted and answered with 200
C4_Witness ==
    /\ OnSuggest /\ Answered
    /\ req.payload.data.ingredients = AList(MAX_INGREDIENTS, TRUE)
    /\ response.status = 200

\* C5 as stated: every response holds a boolean success, every failure an
\* error and a message, every validation failure details as well.
C5_EveryResponseHasSuccess ==
    pc = "responded" =>
        /\ "success" \in DOMAIN response.body
        /\ response.body.success \in BOOLEAN
        /\ ~response.body.success => {"error", "message"} \subseteq DOMAIN response.body
        /\ (response.status = 400 /\ response.body.error = <<"Validation error">>)
                => "details" \in DOMAIN response.body

\* C5 as amended: GET / and GET /health answer 200 without a success field;
\* every other response holds a boolean success, true exactly for a 200;
\* every failure holds an error; the 404, 405 and 500 failures hold a message
\* too, the 400 failures hold none, and of the 400 failures exactly the
\* validation errors hold details.
C5_ResponseShapes ==
    /\ DOMAIN internal_error.body = {"success", "error", "message"}
    /\ pc = "responded" =>
        LET body == response.body
            status == response.status
        IN  IF req.method = "GET" /\ req.route \in {"/", "/health"}
            THEN status = 200 /\ "success" \notin DOMAIN body
            ELSE /\ "success" \in DOMAIN body
                 /\ body.success \in BOOLEAN
                 /\ body.success <=> status = 200
                 /\ status \in {200, 400, 404, 405, 500}
                 /\ ~body.success => "error" \in DOMAIN body
                 /\ status \in {404, 405, 500} => "message" \in DOMAIN body
                 /\ status = 400 =>
                        /\ "message" \notin DOMAIN body
                        /\ "details" \in DOMAIN body <=> body.error = <<"Validation error">>
                        /\ body.error \in {<<"Validation error">>, <<"No data provided">>}

\* a validation failure was answered: error and details, no message
C5_Witness ==
    /\ pc = "responded"
    /\ response.status = 400
    /\ "details" \in DOMAIN response.body
    /\ "message" \notin DOMAIN response.body

\* the request model of the endpoint accepts the request's data
Validates ==
    /\ req.payload.kind = "json"
    /\ req.payload.data.t = "dict"
    /\ IF req.route = "/generate_recipe" THEN RecipeRequest(req.payload.data) = <<>>
       ELSE MultipleRecipesRequest(req.payload.data) = <<>>

\* C6: generate_content is called at most once for a request, only for a
\* request that validation accepted, never for one answered with 400, and
\* not again once it was called, whatever it or the parsing did.
C6_OneCallAfterValidation ==
    /\ calls <= 1
    /\ calls = 1 => ((OnRecipe \/ OnSuggest) /\ Validates)
    /\ pc = "calling" => calls = 0
    /\ pc \in {"idle", "received"} => calls = 0
    /\ (pc = "responded" /\ response.status = 400) => calls = 0
    /\ (pc = "responded" /\ result # None) => calls = 1

\* the one call raised, the request was answered 500 and no second call was made
C6_Witness ==
    /\ pc = "responded"
    /\ calls = 1
    /\ upstream.kind = "raise"
    /\ response.status = 500

\* the fixed message of the generator that serves the request
FixedMessage ==
    IF req.route = "/generate_recipe" THEN <<"Failed to generate recipe">>
    ELSE <<"Failed to generate recipe suggestions">>

\* the replies whose body is JSON but no object, and the objects that lack a
\* required field
NonObjects == Forms(OtherJsonBodies)
Incomplete ==
    Forms({ObjectText(<<M_ingredients, M_instructions>>),
           ObjectText(<<M_name, M_description, M_instructions>>),
           ObjectText(<<M_name, M_ingredients>>),
           ObjectText(<<>>)})

\* C7: neither generator raises; an exception of the external call, a missing
\* required field on the single-recipe path, and malformed JSON or a value
\* that is no object on the multi-recipe path each become the Failure
\* {success false, error str(e), message the fixed text}, answered with 500.
C7_ExceptionsBecomeFailures ==
    (pc = "responded" /\ calls = 1) =>
        LET failed(error) ==
                /\ result.value = [success |-> FALSE, error |-> error, message |-> FixedMessage]
                /\ response = [status |-> 500, body |-> result.value]
        IN  /\ result.kind = "return"
            /\ upstream.kind = "raise" => failed(upstream.exc.msg)
            /\ (upstream.kind = "return" /\ OnRecipe /\ upstream.value \in Incomplete) =>
                   \E i \in 1..Len(required_fields) :
                       failed(<<"Error parsing recipe: ", "Missing required field: ",
                                FieldName(required_fields[i])>>)
            /\ (upstream.kind = "return" /\ OnSuggest /\ upstream.value \in NotJson) =>
                   failed(<<"Expecting value">>)
            /\ (upstream.kind = "return" /\ OnSuggest /\ upstream.value \in NonObjects) =>
                   \E type \in {"str", "int", "list"} :
                       failed(<<"'", type, "' object has no attribute 'get'">>)
            /\ ~result.value.success =>
                   /\ DOMAIN result.value = {"success", "error", "message"}
                   /\ failed(result.value.error)

\* malformed JSON on the multi-recipe path was answered with the Failure
C7_Witness ==
    /\ OnSuggest /\ Answered
    /\ upstream.value \in NotJson
    /\ response.status = 500
    /\ response.body = result.value

\* C8: POST /generate_recipe without a body is answered 400 "No data
\* provided", not 500, and no external call is made.
C8_NoBodyIsNoData ==
    (OnRecipe /\ pc = "responded" /\ req.payload.kind = "none") =>
        /\ response.status = 400
        /\ response.body.error = <<"No data provided">>
        /\ calls = 0

\* C9: a JSON object between an opening fence line (tagged json or bare) and a
\* closing fence line, with whitespace around them, gives the result the
\* object alone gives (the same recipe or the same missing-field error), and
\* the backticks inside the object stay as they are.
C9_FencesAreTransparent ==
    (OnRecipe /\ Answered) =>
        \A b \in ObjectBodies :
            (\/ upstream.value = <<NL>> \o b \o <<SP>>
             \/ \E o \in FenceOpenings, c \in FenceClosings : upstream.value = Fenced(o, b, c))
            => /\ result = RecipeGenerator_generate_recipe(Return(b))
               /\ b = ObjectText(<<M_name, M_description, M_ingredients, <<SP>> \o M_instructions>>)
                    => /\ result.value.success
                       /\ result.value.recipe.v[K_description]
                            = Str(<<"c", SP, BT, BT, BT, SP, BT, BT, BT, BT>>)

\* a fenced recipe whose description holds backticks was parsed and answered
C9_Witness ==
    /\ OnRecipe /\ Answered
    /\ \E o \in FenceOpenings, c \in FenceClosings :
          upstream.value = Fenced(o, ObjectText(<<M_name, M_description, M_ingredients,
                                                  <<SP>> \o M_instructions>>), c)
    /\ response.status = 200

\* C10: a 200 of POST /generate_recipe carries a recipe that is an object with
\* recipe_name, ingredients and instructions, and so does every Success that
\* generate_recipe returns.
C10_SuccessCarriesRecipeObject ==
    (OnRecipe /\ pc = "responded" /\ calls = 1) =>
        LET complete(recipe) ==
                /\ recipe.t = "obj"
                /\ {K_recipe_name, K_ingredients, K_instructions} \subseteq DOMAIN recipe.v
        IN  /\ response.status = 200 => complete(response.body.recipe)
            /\ (result.kind = "return" /\ result.value.success) => complete(result.value.recipe)

=============================================================================
